---- MODULE Spec2Model ----
(***************************************************************************)
(* The transposition table of src/src/tt.cpp: TTEntry::save,               *)
(* TranspositionTable::resize, clear, probe and hashfull.                  *)
(*                                                                         *)
(* A Key is a 64-bit fingerprint written as its 8 bytes, most significant  *)
(* first, so that key >> 48 and uint32_t(key) are computed, not assumed.   *)
(* The table of entryCount entries is kept sparsely: `entries` holds the   *)
(* entries that a key of Keys can address, `clean` the index ranges that   *)
(* have been zeroed since the block was allocated.  Every other entry of   *)
(* the block is either still uninitialised or zero, which `clean` decides. *)
(***************************************************************************)
EXTENDS Integers, Sequences, FiniteSets, TLC

VARIABLES
  pc,           \* position of the thread that calls resize() and clear()
  searching,    \* a search is running (wait_for_search_finished blocks)
  entryCount,   \* TranspositionTable::entryCount
  mem,          \* TranspositionTable::mem, 0 is the null pointer
  table,        \* TranspositionTable::table, the aligned base pointer
  live,         \* the block mem points to is allocated (not freed)
  entries,      \* contents of table[i] for the addressable indices i
  clean,        \* ranges <<start, len>> zeroed since the block was allocated
  generation8,  \* TranspositionTable::generation8
  optThreads,   \* Options["Threads"] as the running clear() reads it, else 0
  threads,      \* std::vector<std::thread> of clear(), with each slice
  joined,       \* number of threads clear() has joined
  call,         \* the last call made on the table, with its arguments
  ret,          \* what the last probe() or hashfull() returned
  cerr,         \* what was written to std::cerr
  mbSize,       \* the argument of the running resize(), else -1
  written,      \* indices written by save since the entry was last zeroed
  writers       \* the saves in progress of threads that share a slot

vars == << pc, searching, entryCount, mem, table, live, entries, clean,
           generation8, optThreads, threads, joined, call, ret, cerr,
           mbSize, written, writers >>

----------------------------------------------------------------------------
\* Bounds of the model.

MaxMb == 1

MaxThreads == 3

MaxSearches == 1

----------------------------------------------------------------------------
\* Program constants.

ONE_PLY == 1

BOUND_UPPER == 1

BOUND_LOWER == 2

BOUND_EXACT == 3

MOVE_NONE == 0

SizeofTTEntry == 8

CacheLineSize == 64

HashfullSample == 1000

----------------------------------------------------------------------------
\* Inputs.

\* 0x123456789ABCDEF0 and 0xBEEF56789ABCDEF0: one slot, two tags.
K1 == <<18, 52, 86, 120, 154, 188, 222, 240>>

K2 == <<190, 239, 86, 120, 154, 188, 222, 240>>

\* 0x000056789ABCDEF0: the same slot, with tag 0.
K0 == <<0, 0, 86, 120, 154, 188, 222, 240>>

\* 0x1234000000100000, whose slot is among the first 1000 entries.
LowKey == <<18, 52, 0, 0, 0, 16, 0, 0>>

Keys == {K1, K2, K0, LowKey}

Values == {100, 200}

Depths == {0, 2, 4}

Bounds == {BOUND_UPPER, BOUND_LOWER, BOUND_EXACT}

Moves == {MOVE_NONE, 796, 1755}

MallocAddrs == {4104}

\* The arguments of save: the combinations of value, depth, move and the
\* bounds LOWER and EXACT for two keys of one slot, some with bound UPPER,
\* some for the key with tag 0 and for the key of the low slot, and two
\* whose value or depth does not fit the entry's field.
SaveArgs ==
  ({K1, K2} \X Values \X {BOUND_LOWER, BOUND_EXACT} \X Depths \X Moves)
    \cup ({K1} \X {200} \X {BOUND_UPPER} \X Depths \X {MOVE_NONE, 1755})
    \cup ({K0} \X {100} \X {BOUND_LOWER, BOUND_EXACT} \X {0, 4}
             \X {MOVE_NONE, 796})
    \cup { <<LowKey, 100, BOUND_EXACT, 4, 796>>,
           <<K1, 65636, BOUND_EXACT, 4, 796>>,
           <<K1, 100, BOUND_EXACT, 258, 796>> }

\* The arguments of the saves made between the calls of resize and clear:
\* one save for each key, and a second one for K1.  The rules of save are
\* examined with all of SaveArgs on the table of resize(1), in TableSpec.
LifeSaveArgs ==
  { <<K1, 100, BOUND_EXACT, 4, 796>>,
    <<K1, 200, BOUND_LOWER, 0, 1755>>,
    <<K2, 200, BOUND_LOWER, 2, 1755>>,
    <<K0, 100, BOUND_LOWER, 0, MOVE_NONE>>,
    <<LowKey, 100, BOUND_EXACT, 4, 796>> }

----------------------------------------------------------------------------
\* Integer conversions and bit operations, at their C++ widths.

ToUint8(x) == x % 256

ToUint16(x) == x % 65536

ToInt8(x) == IF x % 256 >= 128 THEN (x % 256) - 256 ELSE x % 256

ToInt16(x) == IF x % 65536 >= 32768 THEN (x % 65536) - 65536 ELSE x % 65536

RECURSIVE BitOr(_, _)
BitOr(a, b) ==
  IF a = 0 THEN b
  ELSE IF b = 0 THEN a
  ELSE (IF a % 2 = 1 \/ b % 2 = 1 THEN 1 ELSE 0) + 2 * BitOr(a \div 2, b \div 2)

RECURSIVE BitAnd(_, _)
BitAnd(a, b) ==
  IF a = 0 \/ b = 0 THEN 0
  ELSE (IF a % 2 = 1 /\ b % 2 = 1 THEN 1 ELSE 0) + 2 * BitAnd(a \div 2, b \div 2)

\* C++ integer division truncates toward zero.
CDiv(a, b) == IF a >= 0 THEN a \div b ELSE -((-a) \div b)

\* k >> 48
KeyHigh16(k) == k[1] * 256 + k[2]

\* (uint64_t(uint32_t(k)) * n) >> 32, one byte of k at a time
MulHigh32(k, n) ==
  LET t0 == k[8] * n
      t1 == k[7] * n + t0 \div 256
      t2 == k[6] * n + t1 \div 256
      t3 == k[5] * n + t2 \div 256
  IN  t3 \div 256

----------------------------------------------------------------------------
\* Entries.

ZeroEntry ==
  [key16 |-> 0, move16 |-> 0, value16 |-> 0, genBound8 |-> 0, depth8 |-> 0]

\* An entry of a block that malloc returned and nothing has written yet.
Uninit ==
  [key16 |-> -1, move16 |-> -1, value16 |-> -1, genBound8 |-> -1, depth8 |-> -1]

\* TTEntry::bound()
bound(e) == BitAnd(e.genBound8, 3)

\* TranspositionTable::entry(key): the index of the slot of key
entry(key) == MulHigh32(key, entryCount)

\* The indices a key of Keys can address in a table of n entries.
Slots(n) == IF n = 0 THEN {} ELSE {MulHigh32(k, n) : k \in Keys}

\* save without the test b == BOUND_EXACT
save_NoExactRule(e, k, v, b, d, m) ==
  LET e1 == IF m # MOVE_NONE \/ KeyHigh16(k) # e.key16
            THEN [e EXCEPT !.move16 = ToUint16(m)]
            ELSE e
  IN  IF \/ KeyHigh16(k) # e1.key16
         \/ CDiv(d, ONE_PLY) > e1.depth8 - 4
      THEN [e1 EXCEPT !.key16 = ToUint16(KeyHigh16(k)),
                      !.value16 = ToInt16(v),
                      !.genBound8 = ToUint8(BitOr(generation8, b)),
                      !.depth8 = ToInt8(CDiv(d, ONE_PLY))]
      ELSE e1

\* save with >= for > in the depth test
save_MarginOffByOne(e, k, v, b, d, m) ==
  LET e1 == IF m # MOVE_NONE \/ KeyHigh16(k) # e.key16
            THEN [e EXCEPT !.move16 = ToUint16(m)]
            ELSE e
  IN  IF \/ KeyHigh16(k) # e1.key16
         \/ CDiv(d, ONE_PLY) >= e1.depth8 - 4
         \/ b = BOUND_EXACT
      THEN [e1 EXCEPT !.key16 = ToUint16(KeyHigh16(k)),
                      !.value16 = ToInt16(v),
                      !.genBound8 = ToUint8(BitOr(generation8, b)),
                      !.depth8 = ToInt8(CDiv(d, ONE_PLY))]
      ELSE e1

\* save that compares with the stored depth, without the margin
save_NoMargin(e, k, v, b, d, m) ==
  LET e1 == IF m # MOVE_NONE \/ KeyHigh16(k) # e.key16
            THEN [e EXCEPT !.move16 = ToUint16(m)]
            ELSE e
  IN  IF \/ KeyHigh16(k) # e1.key16
         \/ CDiv(d, ONE_PLY) > e1.depth8
         \/ b = BOUND_EXACT
      THEN [e1 EXCEPT !.key16 = ToUint16(KeyHigh16(k)),
                      !.value16 = ToInt16(v),
                      !.genBound8 = ToUint8(BitOr(generation8, b)),
                      !.depth8 = ToInt8(CDiv(d, ONE_PLY))]
      ELSE e1

\* save that writes the move only when the entry is overwritten
save_MoveWithEntry(e, k, v, b, d, m) ==
  IF \/ KeyHigh16(k) # e.key16
     \/ CDiv(d, ONE_PLY) > e.depth8 - 4
     \/ b = BOUND_EXACT
  THEN [e EXCEPT !.key16 = ToUint16(KeyHigh16(k)),
                 !.move16 = IF m # MOVE_NONE \/ KeyHigh16(k) # e.key16
                            THEN ToUint16(m) ELSE @,
                 !.value16 = ToInt16(v),
                 !.genBound8 = ToUint8(BitOr(generation8, b)),
                 !.depth8 = ToInt8(CDiv(d, ONE_PLY))]
  ELSE e

\* save that overwrites the entry whatever the admission test says
save_AlwaysAdmit(e, k, v, b, d, m) ==
  LET e1 == IF m # MOVE_NONE \/ KeyHigh16(k) # e.key16
            THEN [e EXCEPT !.move16 = ToUint16(m)]
            ELSE e
  IN  [e1 EXCEPT !.key16 = ToUint16(KeyHigh16(k)),
                 !.value16 = ToInt16(v),
                 !.genBound8 = ToUint8(BitOr(generation8, b)),
                 !.depth8 = ToInt8(CDiv(d, ONE_PLY))]

\* save that writes the move whatever the move and the stored tag are
save_MoveAlways(e, k, v, b, d, m) ==
  LET e1 == [e EXCEPT !.move16 = ToUint16(m)]
  IN  IF \/ KeyHigh16(k) # e.key16
         \/ CDiv(d, ONE_PLY) > e.depth8 - 4
         \/ b = BOUND_EXACT
      THEN [e1 EXCEPT !.key16 = ToUint16(KeyHigh16(k)),
                      !.value16 = ToInt16(v),
                      !.genBound8 = ToUint8(BitOr(generation8, b)),
                      !.depth8 = ToInt8(CDiv(d, ONE_PLY))]
      ELSE e1

\* save that stamps the bound without the generation
save_StampsBoundOnly(e, k, v, b, d, m) ==
  LET e1 == IF m # MOVE_NONE \/ KeyHigh16(k) # e.key16
            THEN [e EXCEPT !.move16 = ToUint16(m)]
            ELSE e
  IN  IF \/ KeyHigh16(k) # e1.key16
         \/ CDiv(d, ONE_PLY) > e1.depth8 - 4
         \/ b = BOUND_EXACT
      THEN [e1 EXCEPT !.key16 = ToUint16(KeyHigh16(k)),
                      !.value16 = ToInt16(v),
                      !.genBound8 = ToUint8(b),
                      !.depth8 = ToInt8(CDiv(d, ONE_PLY))]
      ELSE e1

\* save that overwrites value, generation/bound and depth and not the tag
save_KeepsTag(e, k, v, b, d, m) ==
  LET e1 == IF m # MOVE_NONE \/ KeyHigh16(k) # e.key16
            THEN [e EXCEPT !.move16 = ToUint16(m)]
            ELSE e
  IN  IF \/ KeyHigh16(k) # e1.key16
         \/ CDiv(d, ONE_PLY) > e1.depth8 - 4
         \/ b = BOUND_EXACT
      THEN [e1 EXCEPT !.value16 = ToInt16(v),
                      !.genBound8 = ToUint8(BitOr(generation8, b)),
                      !.depth8 = ToInt8(CDiv(d, ONE_PLY))]
      ELSE e1

\* TTEntry::save on entry e
save(e, k, v, b, d, m) ==
  LET e1 == IF m # MOVE_NONE \/ KeyHigh16(k) # e.key16
            THEN [e EXCEPT !.move16 = ToUint16(m)]
            ELSE e
  IN  IF \/ KeyHigh16(k) # e1.key16
         \/ CDiv(d, ONE_PLY) > e1.depth8 - 4
         \/ b = BOUND_EXACT
      THEN [e1 EXCEPT !.key16 = ToUint16(KeyHigh16(k)),
                      !.value16 = ToInt16(v),
                      !.genBound8 = ToUint8(BitOr(generation8, b)),
                      !.depth8 = ToInt8(CDiv(d, ONE_PLY))]
      ELSE e1

\* The last call and the last return value, before any call.
NoArgs ==
  [op |-> "none", k |-> << >>, v |-> 0, b |-> 0, d |-> 0, m |-> 0,
   mbSize |-> 0]

\* `after` is the call made right before the last one, kept where the two
\* belong together: a save and the probe of its key, a clear or resize that
\* has returned and the probe that follows, the scenario's two saves.
NoCall ==
  [op |-> "none", k |-> << >>, v |-> 0, b |-> 0, d |-> 0, m |-> 0,
   mbSize |-> 0, after |-> NoArgs]

\* the last call without its own predecessor
Before == [f \in DOMAIN NoArgs |-> call[f]]

\* the first save of the scenario: value 100, EXACT, depth 4, move M1
ScenarioSave ==
  [NoArgs EXCEPT !.op = "save", !.k = K1, !.v = 100, !.b = BOUND_EXACT,
                 !.d = 4, !.m = 796]

AfterProbe(key) ==
  IF \/ call.op = "save" /\ call.k = key
     \/ pc = "idle" /\ call.op \in {"clear", "resize"}
  THEN Before ELSE NoArgs

AfterSave == IF Before = ScenarioSave THEN Before ELSE NoArgs

NoRet == [found |-> FALSE, tte |-> -1, cnt |-> -1]

----------------------------------------------------------------------------
Init ==
  /\ pc = "idle"
  /\ searching = FALSE
  /\ entryCount = 0
  /\ mem = 0
  /\ table = 0
  /\ live = FALSE
  /\ entries = << >>
  /\ clean = {}
  /\ generation8 = 0
  /\ optThreads = 0
  /\ threads = << >>
  /\ joined = 0
  /\ call = NoCall
  /\ ret = NoRet
  /\ cerr = << >>
  /\ mbSize = -1
  /\ written = {}
  /\ writers = << >>

----------------------------------------------------------------------------
\* probe, save and hashfull are called by a running search, wherever the
\* thread that owns the table is, or by that thread when it is outside
\* resize() and clear(); only on a block that is allocated, and only while
\* the process runs.
CanAccess ==
  /\ live
  /\ pc \notin {"crashed", "exited"}
  /\ pc = "idle" \/ searching

\* new_search() at the start of a search episode
StartSearch ==
  /\ pc = "idle"
  /\ ~searching
  /\ generation8 < 4 * MaxSearches
  /\ searching' = TRUE
  /\ generation8' = ToUint8(generation8 + 4)
  /\ UNCHANGED << pc, entryCount, mem, table, live, entries, clean,
                  optThreads, threads, joined, call, ret, cerr, mbSize >>
  /\ UNCHANGED << written, writers >>

StopSearch ==
  /\ searching
  /\ searching' = FALSE
  /\ UNCHANGED << pc, entryCount, mem, table, live, entries, clean,
                  generation8, optThreads, threads, joined, call, ret, cerr, mbSize >>
  /\ UNCHANGED << written, writers >>

\* tte->save(k, v, b, d, m) on the slot of k
Save(k, v, b, d, m) ==
  /\ CanAccess
  /\ entryCount > 0
  /\ CDiv(d, ONE_PLY) * ONE_PLY = d
  /\ entries' = [entries EXCEPT ![entry(k)] = save(@, k, v, b, d, m)]
  /\ call' = [NoCall EXCEPT !.op = "save", !.k = k, !.v = v, !.b = b,
                            !.d = d, !.m = m, !.after = AfterSave]
  /\ ret' = NoRet
  /\ UNCHANGED << pc, searching, entryCount, mem, table, live, clean,
                  generation8, optThreads, threads, joined, cerr, mbSize >>
  /\ written' = written \cup {entry(k)}
  /\ UNCHANGED writers

\* probe that refreshes with the generation alone
probe_DropsBound(e, key) ==
  IF e.key16 = 0 \/ e.key16 = KeyHigh16(key)
  THEN [e EXCEPT !.genBound8 = ToUint8(generation8)]
  ELSE e

\* probe that refreshes the entry whatever its tag is
probe_RefreshAlways(e, key) ==
  [e EXCEPT !.genBound8 = ToUint8(BitOr(generation8, bound(e)))]

\* TranspositionTable::probe on the entry of key
probe(e, key) ==
  IF e.key16 = 0 \/ e.key16 = KeyHigh16(key)
  THEN [e EXCEPT !.genBound8 = ToUint8(BitOr(generation8, bound(e)))]
  ELSE e

\* found without the test that the stored tag is not 0
probeFound_TagMatch(e, key) == e.key16 = KeyHigh16(key)

\* the value probe stores in found
probeFound(e, key) ==
  IF e.key16 = 0 \/ e.key16 = KeyHigh16(key) THEN e.key16 # 0 ELSE FALSE

Probe(key) ==
  /\ CanAccess
  /\ entryCount > 0
  /\ entries' = [entries EXCEPT ![entry(key)] = probe(@, key)]
  /\ ret' = [NoRet EXCEPT !.found = probeFound(entries[entry(key)], key),
                          !.tte = entry(key)]
  /\ call' = [NoCall EXCEPT !.op = "probe", !.k = key,
                            !.after = AfterProbe(key)]
  /\ UNCHANGED << pc, searching, entryCount, mem, table, live, clean,
                  generation8, optThreads, threads, joined, cerr, mbSize >>
  /\ UNCHANGED << written, writers >>

----------------------------------------------------------------------------
\* hashfull()

\* index i lies in a range that memset has zeroed
Zeroed(i) == \E r \in clean : r[1] <= i /\ i < r[1] + r[2]

\* (table[i].genBound8 & 0xFC) == generation8
SameGeneration(e) == BitAnd(e.genBound8, 252) = generation8

\* the part of the sample 0 .. 999 that lies inside the block
SampleEnd == IF entryCount < HashfullSample THEN entryCount ELSE HashfullSample

\* number of indices below n that range r covers
Below(r, n) ==
  IF r[1] >= n THEN 0
  ELSE IF r[1] + r[2] <= n THEN r[2]
  ELSE n - r[1]

RECURSIVE SumBelow(_, _)
SumBelow(S, n) ==
  IF S = {} THEN 0
  ELSE LET r == CHOOSE x \in S : TRUE
       IN  Below(r, n) + SumBelow(S \ {r}, n)

\* the sampled indices that `entries` holds
SampleSlots == {i \in DOMAIN entries : i < SampleEnd}

\* number of sampled entries outside `entries` that are zero (the ranges of
\* `clean` are disjoint)
SampleZero ==
  SumBelow(clean, SampleEnd) - Cardinality({i \in SampleSlots : Zeroed(i)})

\* number of sampled entries whose read is determinate and is counted
Counted ==
  Cardinality({i \in SampleSlots :
                 entries[i] # Uninit /\ SameGeneration(entries[i])})
    + (IF SameGeneration(ZeroEntry) THEN SampleZero ELSE 0)

\* number of sampled entries whose read is indeterminate: outside the block,
\* or never written since malloc
Indeterminate ==
  (HashfullSample - SampleEnd)
    + (SampleEnd - Cardinality(SampleSlots) - SampleZero)
    + Cardinality({i \in SampleSlots : entries[i] = Uninit})

\* the values cnt can end with: each indeterminate read adds 0 or 1
hashfull ==
  {Counted, Counted + Indeterminate}
    \cup (IF Indeterminate > 0 THEN {Counted + 1} ELSE {})

Hashfull ==
  /\ CanAccess
  /\ \E c \in hashfull : ret' = [NoRet EXCEPT !.cnt = c]
  /\ call' = [NoCall EXCEPT !.op = "hashfull"]
  /\ UNCHANGED << pc, searching, entryCount, mem, table, live, entries, clean,
                  generation8, optThreads, threads, joined, cerr, mbSize >>
  /\ UNCHANGED << written, writers >>

\* a read outside the block may also fault
HashfullFault ==
  /\ CanAccess
  /\ HashfullSample > entryCount
  /\ pc' = "crashed"
  /\ call' = [NoCall EXCEPT !.op = "hashfull"]
  /\ ret' = NoRet
  /\ UNCHANGED << searching, entryCount, mem, table, live, entries, clean,
                  generation8, optThreads, threads, joined, cerr, mbSize >>
  /\ UNCHANGED << written, writers >>

----------------------------------------------------------------------------
\* clear()

\* const size_t stride = entryCount / Options["Threads"]
Stride == entryCount \div optThreads

\* start = stride * idx
SliceStart(idx) == Stride * idx

\* len = stride for every thread, the last one included
SliceLen_NoRemainder(idx) == Stride

\* len = idx != Options["Threads"] - 1 ? stride : entryCount - start
SliceLen(idx) ==
  IF idx # optThreads - 1 THEN Stride ELSE entryCount - SliceStart(idx)

\* two ranges overlap or touch
Joins(r, s) == r[1] <= s[1] /\ s[1] <= r[1] + r[2]

Hull(r, s) ==
  << r[1], (IF r[1] + r[2] > s[1] + s[2] THEN r[1] + r[2] ELSE s[1] + s[2]) - r[1] >>

\* a set of ranges as the disjoint maximal ranges with the same union
RECURSIVE Merge(_)
Merge(S) ==
  IF \E r \in S, s \in S : r # s /\ Joins(r, s)
  THEN LET p == CHOOSE p \in S \X S : p[1] # p[2] /\ Joins(p[1], p[2])
       IN  Merge((S \ {p[1], p[2]}) \cup {Hull(p[1], p[2])})
  ELSE S

\* std::memset(&table[start], 0, len * sizeof(TTEntry))
Memset(start, len) ==
  /\ entries' = [i \in DOMAIN entries |->
                   IF start <= i /\ i < start + len THEN ZeroEntry
                   ELSE entries[i]]
  /\ clean' = IF len > 0 THEN Merge(clean \cup {<<start, len>>}) ELSE clean
  /\ written' = {i \in written : ~(start <= i /\ i < start + len)}

\* clear() is entered with Options["Threads"] = n
ClearCall(n) ==
  /\ pc = "idle"
  /\ live
  /\ ~searching
  /\ pc' = "clear_spawn"
  /\ optThreads' = n
  /\ threads' = << >>
  /\ joined' = 0
  /\ call' = [NoCall EXCEPT !.op = "clear"]
  /\ ret' = NoRet
  /\ UNCHANGED << searching, entryCount, mem, table, live, entries, clean,
                  generation8, cerr, mbSize >>
  /\ UNCHANGED << written, writers >>

\* one iteration of for (idx = 0; idx < Options["Threads"]; ++idx)
ClearSpawn ==
  /\ pc = "clear_spawn"
  /\ Len(threads) < optThreads
  /\ threads' = Append(threads, [st |-> "running", start |-> 0, len |-> 0])
  /\ pc' = IF Len(threads) + 1 < optThreads THEN "clear_spawn" ELSE "clear_join"
  /\ UNCHANGED << searching, entryCount, mem, table, live, entries, clean,
                  generation8, optThreads, joined, call, ret, cerr, mbSize >>
  /\ UNCHANGED << written, writers >>

\* the body of thread idx
ClearWorker(idx) ==
  /\ idx + 1 \in DOMAIN threads
  /\ threads[idx + 1].st = "running"
  /\ Memset(SliceStart(idx), SliceLen(idx))
  /\ threads' = [threads EXCEPT ![idx + 1] =
                   [st |-> "done", start |-> SliceStart(idx),
                    len |-> SliceLen(idx)]]
  /\ UNCHANGED << pc, searching, entryCount, mem, table, live, generation8,
                  optThreads, joined, call, ret, cerr, mbSize >>
  /\ UNCHANGED writers

\* a join that returns while the thread still runs
ClearJoin_NoWait ==
  /\ pc = "clear_join"
  /\ joined < Len(threads)
  /\ joined' = joined + 1
  /\ pc' = IF joined + 1 < Len(threads) THEN "clear_join" ELSE "clear_return"
  /\ UNCHANGED << searching, entryCount, mem, table, live, entries, clean,
                  generation8, optThreads, threads, call, ret, cerr, mbSize >>
  /\ UNCHANGED << written, writers >>

\* one th.join() of for (std::thread& th: threads)
ClearJoin ==
  /\ pc = "clear_join"
  /\ joined < Len(threads)
  /\ threads[joined + 1].st = "done"
  /\ joined' = joined + 1
  /\ pc' = IF joined + 1 < Len(threads) THEN "clear_join" ELSE "clear_return"
  /\ UNCHANGED << searching, entryCount, mem, table, live, entries, clean,
                  generation8, optThreads, threads, call, ret, cerr, mbSize >>
  /\ UNCHANGED << written, writers >>

\* clear() returns, and so does resize() when it made the call
ClearReturn ==
  /\ pc = "clear_return"
  /\ pc' = "idle"
  /\ optThreads' = 0
  /\ threads' = << >>
  /\ joined' = 0
  /\ mbSize' = -1
  /\ UNCHANGED << searching, entryCount, mem, table, live, entries, clean,
                  generation8, call, ret, cerr >>
  /\ UNCHANGED << written, writers >>

----------------------------------------------------------------------------
\* resize(mbSize)

ResizeCall(mb) ==
  /\ pc = "idle"
  /\ pc' = "resize_wait"
  /\ mbSize' = mb
  /\ call' = [NoCall EXCEPT !.op = "resize", !.mbSize = mb]
  /\ ret' = NoRet
  /\ UNCHANGED << searching, entryCount, mem, table, live, entries, clean,
                  generation8, optThreads, threads, joined, cerr >>
  /\ UNCHANGED << written, writers >>

\* resize that goes on while the search still runs
ResizeWait_NoWait ==
  /\ pc = "resize_wait"
  /\ pc' = "resize_count"
  /\ call' = [NoCall EXCEPT !.op = "resize", !.mbSize = mbSize]
  /\ ret' = NoRet
  /\ UNCHANGED << searching, entryCount, mem, table, live, entries, clean,
                  generation8, optThreads, threads, joined, cerr, mbSize >>
  /\ UNCHANGED << written, writers >>

\* Threads.main()->wait_for_search_finished() returns; from here on the
\* resize is the last thing that has happened to the table
ResizeWait ==
  /\ pc = "resize_wait"
  /\ ~searching
  /\ pc' = "resize_count"
  /\ call' = [NoCall EXCEPT !.op = "resize", !.mbSize = mbSize]
  /\ ret' = NoRet
  /\ UNCHANGED << searching, entryCount, mem, table, live, entries, clean,
                  generation8, optThreads, threads, joined, cerr, mbSize >>
  /\ UNCHANGED << written, writers >>

\* the count with the size of a cache line for the size of an entry
EntryCount_PerCacheLine(mb) == (mb * 1024 * 1024) \div CacheLineSize

\* mbSize * 1024 * 1024 / sizeof(TTEntry)
EntryCount(mb) == (mb * 1024 * 1024) \div SizeofTTEntry

\* entryCount = mbSize * 1024 * 1024 / sizeof(TTEntry)
ResizeCount ==
  /\ pc = "resize_count"
  /\ entryCount' = EntryCount(mbSize)
  /\ pc' = "resize_free"
  /\ UNCHANGED << searching, mem, table, live, entries, clean, generation8,
                  optThreads, threads, joined, call, ret, cerr, mbSize >>
  /\ UNCHANGED << written, writers >>

\* free(mem)
ResizeFree ==
  /\ pc = "resize_free"
  /\ live' = FALSE
  /\ entries' = << >>
  /\ clean' = {}
  /\ pc' = "resize_malloc"
  /\ UNCHANGED << searching, entryCount, mem, table, generation8, optThreads,
                  threads, joined, call, ret, cerr, mbSize >>
  /\ written' = {}
  /\ UNCHANGED writers

\* mem = malloc(...) returns a block; if (!mem) is not taken
ResizeMalloc ==
  /\ pc = "resize_malloc"
  /\ \E a \in MallocAddrs : mem' = a
  /\ live' = TRUE
  /\ entries' = [i \in Slots(entryCount) |-> Uninit]
  /\ pc' = "resize_align"
  /\ UNCHANGED << searching, entryCount, table, clean, generation8,
                  optThreads, threads, joined, call, ret, cerr, mbSize >>
  /\ UNCHANGED << written, writers >>

\* if (!mem) that reports and goes on
ResizeMallocFail_Continues ==
  /\ pc = "resize_malloc"
  /\ mem' = 0
  /\ cerr' = Append(cerr, <<"Failed to allocate ", mbSize,
                            "MB for transposition table.">>)
  /\ pc' = "resize_align"
  /\ UNCHANGED << searching, entryCount, table, live, entries, clean,
                  generation8, optThreads, threads, joined, call, ret, mbSize >>
  /\ UNCHANGED << written, writers >>

\* mem = malloc(...) returns null; if (!mem) reports and exits
ResizeMallocFail ==
  /\ pc = "resize_malloc"
  /\ mem' = 0
  /\ cerr' = Append(cerr, <<"Failed to allocate ", mbSize,
                            "MB for transposition table.">>)
  /\ pc' = "exited"
  /\ UNCHANGED << searching, entryCount, table, live, entries, clean,
                  generation8, optThreads, threads, joined, call, ret, mbSize >>
  /\ UNCHANGED << written, writers >>

\* (uintptr_t(mem) + CacheLineSize - 1) & ~(CacheLineSize - 1)
AlignUp(a) == ((a + CacheLineSize - 1) \div CacheLineSize) * CacheLineSize

\* table = the aligned mem; clear() is entered with Options["Threads"] = n
ResizeAlign(n) ==
  /\ pc = "resize_align"
  /\ table' = AlignUp(mem)
  /\ pc' = "clear_spawn"
  /\ optThreads' = n
  /\ threads' = << >>
  /\ joined' = 0
  /\ UNCHANGED << searching, entryCount, mem, live, entries, clean,
                  generation8, call, ret, cerr, mbSize >>
  /\ UNCHANGED << written, writers >>

----------------------------------------------------------------------------
Next ==
  \/ StartSearch
  \/ StopSearch
  \/ \E a \in LifeSaveArgs : Save(a[1], a[2], a[3], a[4], a[5])
  \/ \E k \in Keys : Probe(k)
  \/ Hashfull
  \/ HashfullFault
  \/ \E n \in 1 .. MaxThreads : ClearCall(n)
  \/ ClearSpawn
  \/ \E idx \in 0 .. MaxThreads - 1 : ClearWorker(idx)
  \/ ClearJoin
  \/ ClearReturn
  \/ \E mb \in 0 .. MaxMb : ResizeCall(mb)
  \/ ResizeWait
  \/ ResizeCount
  \/ ResizeFree
  \/ ResizeMalloc
  \/ ResizeMallocFail
  \/ \E n \in 1 .. MaxThreads : ResizeAlign(n)

Spec == Init /\ [][Next]_vars

----------------------------------------------------------------------------
\* save, probe and hashfull on the table that resize(1) leaves: the state in
\* which resize(1) returns, and from there the calls of searches only.

InitTable ==
  /\ pc = "idle"
  /\ searching = FALSE
  /\ entryCount = EntryCount(1)
  /\ mem \in MallocAddrs
  /\ table = AlignUp(mem)
  /\ live = TRUE
  /\ entries = [i \in Slots(EntryCount(1)) |-> ZeroEntry]
  /\ clean = {<<0, EntryCount(1)>>}
  /\ generation8 = 0
  /\ optThreads = 0
  /\ threads = << >>
  /\ joined = 0
  /\ call = [NoCall EXCEPT !.op = "resize", !.mbSize = 1]
  /\ ret = NoRet
  /\ cerr = << >>
  /\ mbSize = -1
  /\ written = {}
  /\ writers = << >>

NextTable ==
  \/ StartSearch
  \/ StopSearch
  \/ \E a \in SaveArgs : Save(a[1], a[2], a[3], a[4], a[5])
  \/ \E k \in Keys : Probe(k)
  \/ Hashfull

TableSpec == InitTable /\ [][NextTable]_vars

----------------------------------------------------------------------------
\* Two threads of one search that call save on one slot at once.  Nothing
\* orders the statements of one call with those of the other: each statement
\* of save is a step, and the steps of the two calls interleave freely.

WriterIds == {1, 2}

\* the saves the two threads make: two fingerprints of one slot with
\* different tags, values, depths and moves, and a shallow one with no move
RaceArgs ==
  { <<K1, 100, BOUND_EXACT, 4, 796>>,
    <<K2, 200, BOUND_LOWER, 2, 1755>>,
    <<K1, 200, BOUND_UPPER, 0, MOVE_NONE>> }

\* a thread that has not called save
NoWriter ==
  [at |-> "idle", k |-> << >>, v |-> 0, b |-> 0, d |-> 0, m |-> 0]

\* the state after resize(1) and new_search(), with the search running
InitRace ==
  /\ pc = "idle"
  /\ searching = TRUE
  /\ entryCount = EntryCount(1)
  /\ mem \in MallocAddrs
  /\ table = AlignUp(mem)
  /\ live = TRUE
  /\ entries = [i \in Slots(EntryCount(1)) |-> ZeroEntry]
  /\ clean = {<<0, EntryCount(1)>>}
  /\ generation8 = 4
  /\ optThreads = 0
  /\ threads = << >>
  /\ joined = 0
  /\ call = [NoCall EXCEPT !.op = "resize", !.mbSize = 1]
  /\ ret = NoRet
  /\ cerr = << >>
  /\ mbSize = -1
  /\ written = {}
  /\ writers = [t \in WriterIds |-> NoWriter]

\* a slot other than the one the thread's fingerprint addresses
tte_Neighbour(t) ==
  CHOOSE i \in DOMAIN entries : i # entry(writers[t].k)

\* tte, the entry the thread calls save on: the one probe returned for k
tte(t) == entry(writers[t].k)

\* thread t is at statement `at` of save; it goes on to statement `to`
At(t, at, to) ==
  /\ CanAccess
  /\ writers[t].at = at
  /\ writers' = [writers EXCEPT ![t].at = to]

RaceFrame ==
  UNCHANGED << pc, searching, entryCount, mem, table, live, clean,
               generation8, optThreads, threads, joined, call, ret, cerr,
               mbSize >>

\* tte->save(k, v, b, d, m) is called
RaceCall(t, a) ==
  /\ CanAccess
  /\ writers[t].at = "idle"
  /\ CDiv(a[4], ONE_PLY) * ONE_PLY = a[4]
  /\ writers' = [writers EXCEPT ![t] =
                   [at |-> "move", k |-> a[1], v |-> a[2], b |-> a[3],
                    d |-> a[4], m |-> a[5]]]
  /\ UNCHANGED << entries, written >>
  /\ RaceFrame

\* if (m || (k >> 48) != key16) move16 = (uint16_t)m;
RaceMove(t) ==
  /\ At(t, "move", "test")
  /\ entries' =
       IF \/ writers[t].m # MOVE_NONE
          \/ KeyHigh16(writers[t].k) # entries[tte(t)].key16
       THEN [entries EXCEPT ![tte(t)].move16 = ToUint16(writers[t].m)]
       ELSE entries
  /\ written' = written \cup {tte(t)}
  /\ RaceFrame

\* if ((k >> 48) != key16 || d / ONE_PLY > depth8 - 4 || b == BOUND_EXACT)
RaceTest(t) ==
  /\ \E to \in {"key", "done"} :
       /\ At(t, "test", to)
       /\ (to = "key") <=>
            \/ KeyHigh16(writers[t].k) # entries[tte(t)].key16
            \/ CDiv(writers[t].d, ONE_PLY) > entries[tte(t)].depth8 - 4
            \/ writers[t].b = BOUND_EXACT
  /\ UNCHANGED << entries, written >>
  /\ RaceFrame

\* key16 = (uint16_t)(k >> 48);
RaceKey(t) ==
  /\ At(t, "key", "value")
  /\ entries' = [entries EXCEPT
                   ![tte(t)].key16 = ToUint16(KeyHigh16(writers[t].k))]
  /\ UNCHANGED written
  /\ RaceFrame

\* value16 = (int16_t)v;
RaceValue(t) ==
  /\ At(t, "value", "gen")
  /\ entries' = [entries EXCEPT ![tte(t)].value16 = ToInt16(writers[t].v)]
  /\ UNCHANGED written
  /\ RaceFrame

\* genBound8 = (uint8_t)(TT.generation8 | b);
RaceGen(t) ==
  /\ At(t, "gen", "depth")
  /\ entries' = [entries EXCEPT
                   ![tte(t)].genBound8 =
                      ToUint8(BitOr(generation8, writers[t].b))]
  /\ UNCHANGED written
  /\ RaceFrame

\* depth8 = (int8_t)(d / ONE_PLY);
RaceDepth(t) ==
  /\ At(t, "depth", "done")
  /\ entries' = [entries EXCEPT
                   ![tte(t)].depth8 = ToInt8(CDiv(writers[t].d, ONE_PLY))]
  /\ UNCHANGED written
  /\ RaceFrame

NextRace ==
  \/ \E t \in WriterIds, a \in RaceArgs : RaceCall(t, a)
  \/ \E t \in WriterIds : RaceMove(t)
  \/ \E t \in WriterIds : RaceTest(t)
  \/ \E t \in WriterIds : RaceKey(t)
  \/ \E t \in WriterIds : RaceValue(t)
  \/ \E t \in WriterIds : RaceGen(t)
  \/ \E t \in WriterIds : RaceDepth(t)
  \/ \E k \in Keys : Probe(k)

RaceSpec == InitRace /\ [][NextRace]_vars

----------------------------------------------------------------------------
\* Properties of save and probe.

\* no resize() or clear() is at work on the table: the last call is the
\* last thing that has happened to it
AtRest == pc \in {"idle", "resize_wait"}

\* the entry in the slot of the last call's key
Addressed == entries[entry(call.k)]

\* a value and a depth that fit the entry's 16-bit and 8-bit fields
Fits(c) == c.v \in -32768 .. 32767 /\ c.d \in -128 .. 127

\* this step is a call of save; its arguments are those of call'
SaveStep ==
  /\ call'.op = "save"
  /\ Save(call'.k, call'.v, call'.b, call'.d, call'.m)

\* the entry that the save of this step writes, before and after the step
Target == entries[entry(call'.k)]

Target1 == entries'[entry(call'.k)]

\* tag, value, depth and generation/bound are as before the step
Kept ==
  /\ Target1.key16 = Target.key16
  /\ Target1.value16 = Target.value16
  /\ Target1.depth8 = Target.depth8
  /\ Target1.genBound8 = Target.genBound8

\* the last call was a probe right after a save of the same key with bound
\* EXACT and with a value and a depth that fit
ProbeAfterExactSave ==
  /\ AtRest
  /\ call.op = "probe"
  /\ call.after.op = "save"
  /\ call.after.b = BOUND_EXACT
  /\ Fits(call.after)

\* C1, as claimed: a save with bound EXACT followed at once by a probe of the
\* same fingerprint yields found = true and an entry holding the saved value,
\* depth and move, for every fingerprint and every move.
C1_AsClaimed ==
  ProbeAfterExactSave =>
    /\ ret.found
    /\ entries[ret.tte].value16 = call.after.v
    /\ entries[ret.tte].depth8 = call.after.d
    /\ entries[ret.tte].move16 = call.after.m

\* C1, amended: for a fingerprint whose high 16 bits are not zero, a save with
\* bound EXACT followed at once by a probe of the same fingerprint yields
\* found = true and the addressed entry, which holds the fingerprint's tag,
\* the saved value and depth, the bound EXACT, and the saved move when that
\* is not the null move; for a fingerprint whose high 16 bits are zero the
\* probe yields found = false.
C1_SaveThenProbe ==
  ProbeAfterExactSave =>
    /\ ret.tte = entry(call.k)
    /\ ret.found = (KeyHigh16(call.k) # 0)
    /\ Addressed.key16 = KeyHigh16(call.k)
    /\ Addressed.value16 = call.after.v
    /\ Addressed.depth8 = call.after.d
    /\ bound(Addressed) = BOUND_EXACT
    /\ call.after.m # MOVE_NONE => Addressed.move16 = call.after.m

\* a probe has found what the save before it stored
C1_Witness ==
  /\ ProbeAfterExactSave
  /\ ret.found
  /\ call.after.m # MOVE_NONE
  /\ Addressed.move16 = call.after.m
  /\ Addressed.value16 = call.after.v
  /\ Addressed.depth8 = call.after.d

\* this step saves a bound other than EXACT for the key of an EXACT entry
NonExactOntoExact ==
  /\ SaveStep
  /\ call'.b # BOUND_EXACT
  /\ Target.key16 = KeyHigh16(call'.k)
  /\ bound(Target) = BOUND_EXACT

\* C2, as claimed: an EXACT entry for K is not overwritten by a non-exact
\* save for K unless that save's depth exceeds the stored depth by more than
\* the margin of 4.
C2_AsClaimed ==
  [][(NonExactOntoExact /\ ~(call'.d > Target.depth8 + 4)) => Kept]_vars

\* C2, amended: an EXACT entry for K is not overwritten by a non-exact save
\* for K unless that save's depth is greater than the stored depth minus 4.
C2_ExactKept ==
  [][(NonExactOntoExact /\ ~(call'.d > Target.depth8 - 4)) => Kept]_vars

\* a non-exact save of depth 0 has left an EXACT entry of depth 4 as it was
C2_Witness ==
  /\ AtRest
  /\ call.op = "save"
  /\ call.b # BOUND_EXACT
  /\ call.d = 0
  /\ Addressed.key16 = KeyHigh16(call.k)
  /\ bound(Addressed) = BOUND_EXACT
  /\ Addressed.depth8 = 4
  /\ Addressed.value16 # call.v

\* the last call was a save of K1 with bound LOWER and move M2, right after
\* the save of K1 with value 100, bound EXACT, depth 4 and move M1
ScenarioSecondSave(d) ==
  /\ AtRest
  /\ call.op = "save"
  /\ call.after = ScenarioSave
  /\ call.k = K1
  /\ call.b = BOUND_LOWER
  /\ call.d = d
  /\ call.m = 1755

\* C3, as claimed: after save(K, 100, EXACT, 4, M1), a save for K with depth
\* 2, bound LOWER and move M2 leaves value 100 and depth 4 and sets the move
\* to M2.
C3_AsClaimed ==
  ScenarioSecondSave(2) =>
    /\ Addressed.value16 = 100
    /\ Addressed.depth8 = 4
    /\ Addressed.move16 = 1755

\* C3, amended: after save(K, 100, EXACT, 4, M1), a save for K with depth 2,
\* bound LOWER and move M2 overwrites the entry, because 2 > 4 - 4: the value
\* is the new one, the depth 2, the bound LOWER and the move M2.  With depth 0
\* the save leaves value 100, depth 4 and bound EXACT and sets the move to M2.
C3_Scenario ==
  /\ ScenarioSecondSave(2) =>
        /\ Addressed.key16 = KeyHigh16(K1)
        /\ Addressed.value16 = call.v
        /\ Addressed.depth8 = 2
        /\ bound(Addressed) = BOUND_LOWER
        /\ Addressed.move16 = 1755
  /\ ScenarioSecondSave(0) =>
        /\ Addressed.key16 = KeyHigh16(K1)
        /\ Addressed.value16 = 100
        /\ Addressed.depth8 = 4
        /\ bound(Addressed) = BOUND_EXACT
        /\ Addressed.move16 = 1755

\* the scenario's second save, with a value other than 100, has been made
C3_Witness == ScenarioSecondSave(2) /\ call.v = 200

\* C4: a save for K with a non-null move onto an entry that holds K's tag
\* sets the stored move to the new move, also when the entry is otherwise
\* left as it was.
C4_MoveUpdated ==
  [][(/\ SaveStep
      /\ call'.m # MOVE_NONE
      /\ Target.key16 = KeyHigh16(call'.k))
        => Target1.move16 = call'.m]_vars

\* a shallow non-exact save has changed the move and nothing else
C4_Witness ==
  /\ AtRest
  /\ call.op = "save"
  /\ call.b = BOUND_LOWER
  /\ call.d = 0
  /\ call.m = 1755
  /\ Addressed.key16 = KeyHigh16(call.k)
  /\ Addressed.move16 = 1755
  /\ Addressed.depth8 = 4
  /\ Addressed.value16 # call.v
  /\ bound(Addressed) # call.b

----------------------------------------------------------------------------
\* Properties of clear, resize and hashfull.

\* every entry with index in [0, entryCount) is zero
AllZero ==
  /\ \A i \in DOMAIN entries : entries[i] = ZeroEntry
  /\ clean = IF entryCount > 0 THEN {<<0, entryCount>>} ELSE {}

\* the last call was a probe, made right after clear() returned
ProbeAfterClear ==
  /\ AtRest
  /\ call.op = "probe"
  /\ call.after.op = "clear"

\* C5: clear() returns only after every worker it started has finished; when
\* it returns every entry with index in [0, entryCount) is zero, and a probe
\* of any fingerprint made right after it returns found = false, whatever
\* the table held and whatever the worker count.
C5_ClearBarrier ==
  /\ pc = "clear_return" =>
       /\ Len(threads) = optThreads
       /\ joined = optThreads
       /\ \A i \in DOMAIN threads : threads[i].st = "done"
       /\ AllZero
  /\ ProbeAfterClear => ~ret.found /\ entries[ret.tte].key16 = 0

\* a probe of a fingerprint with a nonzero tag, after a clear() made once a
\* search had been run on the table, has found nothing
C5_Witness ==
  /\ ProbeAfterClear
  /\ KeyHigh16(call.k) # 0
  /\ generation8 # 0
  /\ entryCount > 0
  /\ ~ret.found

\* the workers that have zeroed their slice
Done == {i \in DOMAIN threads : threads[i].st = "done"}

\* the end of the slice of worker i
SliceEnd(i) == threads[i].start + threads[i].len

\* C6: the slices zeroed by the workers of clear() are pairwise disjoint and,
\* once all workers have finished, cover [0, entryCount) exactly, for every
\* entryCount and every worker count >= 1.
C6_SlicesPartition ==
  /\ \A i \in Done :
       /\ threads[i].start >= 0
       /\ threads[i].len >= 0
       /\ SliceEnd(i) <= entryCount
  /\ \A i, j \in Done : i < j => SliceEnd(i) <= threads[j].start
  /\ pc = "clear_return" =>
       /\ threads[1].start = 0
       /\ \A i \in 1 .. Len(threads) - 1 : threads[i + 1].start = SliceEnd(i)
       /\ SliceEnd(Len(threads)) = entryCount

\* clear() has run with three workers on a table whose size is not a
\* multiple of three: the last slice is longer than the others
C6_Witness ==
  /\ pc = "clear_return"
  /\ optThreads = 3
  /\ entryCount > 0
  /\ threads[3].len > threads[1].len
  /\ SliceEnd(3) = entryCount

\* resize() has returned and nothing has been called since
ResizeReturned == pc = "idle" /\ call.op = "resize"

C8_AsClaimed ==
  [][(/\ Hashfull
      /\ pc = "idle"
      /\ call.op = "clear"
      /\ generation8 # 0) => ret'.cnt = 0]_vars

\* C9, as claimed: in every reachable state hashfull() returns a value in
\* [0, 1000] that is the number of entries among the first 1000 whose
\* generation bits equal the table's generation, and it modifies no entry.
C9_AsClaimed ==
  [][Hashfull =>
       /\ ret'.cnt \in 0 .. 1000
       /\ ret'.cnt = Counted
       /\ Indeterminate = 0
       /\ entries' = entries]_vars

\* what resize(mbSize) writes to std::cerr when the allocation fails
Report == <<"Failed to allocate ", mbSize, "MB for transposition table.">>

\* C10: when the allocation in resize fails, resize reports the requested
\* size and the process ends: the aligned base pointer is not computed,
\* clear() is not called, and nothing runs on the table afterwards.
C10_AllocationFailure ==
  /\ [](pc = "exited" =>
          /\ cerr = << Report >>
          /\ mbSize = call.mbSize
          /\ mem = 0
          /\ threads = << >>)
  /\ [][(pc = "resize_malloc" /\ mem' = 0) =>
          /\ pc' = "exited"
          /\ cerr' = Append(cerr, Report)
          /\ table' = table
          /\ threads' = threads]_vars
  /\ [][pc # "exited"]_vars

\* the allocation of resize(1) has failed and the process has ended
C10_Witness ==
  /\ pc = "exited"
  /\ mbSize = 1
  /\ cerr = << Report >>

----------------------------------------------------------------------------
\* Properties of the rules of save and probe, on the table of resize(1).

\* the state in which TableSpec starts is the one resize(1) returns in
TableOfResize ==
  (ResizeReturned /\ call.mbSize = 1 /\ generation8 = 0 /\ ~searching
     /\ cerr = << >>)
    => /\ entryCount = EntryCount(1)
       /\ table = AlignUp(mem)
       /\ live
       /\ entries = [i \in Slots(EntryCount(1)) |-> ZeroEntry]
       /\ clean = {<<0, EntryCount(1)>>}
       /\ optThreads = 0 /\ threads = << >> /\ joined = 0
       /\ ret = NoRet /\ mbSize = -1

\* the admission test of the save of this step
Admitted ==
  \/ Target.key16 # KeyHigh16(call'.k)
  \/ call'.d \div ONE_PLY > Target.depth8 - 4
  \/ call'.b = BOUND_EXACT

\* C11: a save overwrites tag, value, generation/bound and depth with the high
\* 16 bits of k, v, generation | b and d in plies if and only if the stored
\* tag differs from k's tag, or d in plies is greater than the stored depth
\* minus 4, or b is EXACT; otherwise the four fields are as they were.  (v
\* and d are within the entry's 16-bit and 8-bit fields.)
C11_AdmissionRule ==
  [][(SaveStep /\ Fits(call')) =>
       /\ Admitted =>
            /\ Target1.key16 = KeyHigh16(call'.k)
            /\ Target1.value16 = call'.v
            /\ Target1.genBound8 = BitOr(generation8, call'.b)
            /\ Target1.depth8 = call'.d \div ONE_PLY
       /\ ~Admitted => Kept]_vars

\* a save has been refused: the entry holds K1 with depth 4 and a value
\* and a bound that are not those of the last save, which was for K1
C11_Witness ==
  /\ AtRest
  /\ call.op = "save"
  /\ call.k = K1
  /\ call.b = BOUND_UPPER
  /\ call.d = 0
  /\ Addressed.key16 = KeyHigh16(K1)
  /\ Addressed.depth8 = 4
  /\ bound(Addressed) = BOUND_LOWER

\* C12: a save with the null move onto an entry that holds the fingerprint's
\* tag leaves the stored move as it was, also when the admission test passes;
\* the stored move is overwritten exactly when the move is not null or the
\* stored tag differs from the fingerprint's tag.
C12_MoveRetention ==
  [][SaveStep =>
       Target1.move16 =
         IF call'.m # MOVE_NONE \/ Target.key16 # KeyHigh16(call'.k)
         THEN call'.m
         ELSE Target.move16]_vars

\* an EXACT save with the null move has overwritten the value and the depth
\* of an entry for the same key and has left its move
C12_Witness ==
  /\ AtRest
  /\ call.op = "save"
  /\ call.m = MOVE_NONE
  /\ call.b = BOUND_EXACT
  /\ Addressed.key16 = KeyHigh16(call.k)
  /\ Addressed.value16 = call.v
  /\ Addressed.depth8 = call.d
  /\ Addressed.move16 = 1755

\* this step is a call of probe; its key is that of call'
ProbeStep ==
  /\ call'.op = "probe"
  /\ Probe(call'.k)

\* the stored tag is not 0 and is the tag of the key probed in this step
Hit == Target.key16 # 0 /\ Target.key16 = KeyHigh16(call'.k)

\* every entry but the one this step's key addresses is as before the step
OthersKept ==
  /\ DOMAIN entries' = DOMAIN entries
  /\ \A i \in DOMAIN entries : i # entry(call'.k) => entries'[i] = entries[i]

\* the entry this step's key addresses, with its generation bits set to the
\* table's generation and its bound bits as they are
Refreshed == [Target EXCEPT !.genBound8 = generation8 + bound(Target)]

\* C13: on a probe hit the entry's generation bits are set to the table's
\* generation and its two bound bits are preserved; tag, move, value and
\* depth of the entry and every other entry are unchanged.
C13_HitRefresh ==
  [][(ProbeStep /\ Hit) =>
       /\ ret'.found
       /\ BitAnd(Target1.genBound8, 252) = generation8
       /\ bound(Target1) = bound(Target)
       /\ Target1 = Refreshed
       /\ OthersKept]_vars

\* a probe has hit an EXACT entry in the search that follows the first
\* new_search(): the entry carries generation 4 and the bound EXACT
C13_Witness ==
  /\ AtRest
  /\ call.op = "probe"
  /\ call.after.op = "none"
  /\ ret.found
  /\ generation8 = 4
  /\ Addressed.genBound8 = 4 + BOUND_EXACT

\* C14, as claimed: a probe that returns found = false modifies no entry and
\* leaves the result of hashfull() as it was.
C14_AsClaimed ==
  [][(ProbeStep /\ ~ret'.found) =>
       /\ entries' = entries
       /\ Counted' = Counted]_vars

\* C14, amended: a probe that returns found = false on a slot whose tag is
\* not 0 modifies nothing, and hashfull() is unchanged; a probe that returns
\* found = false on a slot whose tag is 0 sets the generation bits of that
\* slot to the table's generation, keeps its bound bits and modifies nothing
\* else.
C14_MissEffect ==
  [][(ProbeStep /\ ~ret'.found) =>
       /\ OthersKept
       /\ Target.key16 # 0 => (entries' = entries /\ Counted' = Counted)
       /\ Target.key16 = 0 => Target1 = Refreshed]_vars

\* a probe has missed on an empty slot among the first 1000 and has stamped
\* it with generation 4 (a save stamps a bound too): hashfull() counts it
C14_Witness ==
  /\ AtRest
  /\ call.op = "probe"
  /\ call.k = LowKey
  /\ ~ret.found
  /\ Addressed.key16 = 0
  /\ Addressed.genBound8 = 4
  /\ Counted = 1

\* C15: probe(key) returns found = true if and only if the tag stored in the
\* slot of key is not 0 and is the high 16 bits of key; either way it returns
\* the slot of key, so a probe right after a probe of the same key returns
\* the same slot.
C15_FoundIffTag ==
  [][ProbeStep =>
       /\ ret'.found = Hit
       /\ ret'.tte = entry(call'.k)
       /\ (AtRest /\ call.op = "probe" /\ call.k = call'.k)
            => ret'.tte = ret.tte]_vars

\* a probe of K2 has missed on the slot that holds K1, and returned it
C15_Witness ==
  /\ AtRest
  /\ call.op = "probe"
  /\ call.k = K2
  /\ Addressed.key16 = KeyHigh16(K1)
  /\ ~ret.found
  /\ ret.tte = entry(K1)

\* C16, as claimed: in every state in which the table is at rest, an
\* entry's tag is 0 if and only if no save has written the slot since it was
\* last zeroed.
C16_AsClaimed ==
  AtRest => \A i \in DOMAIN entries : (entries[i].key16 = 0) <=> (i \notin written)

\* C16, amended: in every state in which the table is at rest, an entry whose
\* tag is not 0 has been written by save since it was last zeroed, and every
\* save leaves the high 16 bits of its fingerprint as the tag: the tag of a
\* written slot is 0 exactly when the last save into it was for a
\* fingerprint whose high 16 bits are 0.
C16_TagOfWritten ==
  /\ [](AtRest => \A i \in DOMAIN entries : entries[i].key16 # 0 => i \in written)
  /\ [][SaveStep =>
          /\ Target1.key16 = KeyHigh16(call'.k)
          /\ entry(call'.k) \in written']_vars

\* after a clear() in the search generation 4, K1's slot has been written
\* and holds K1's tag, and the slot of LowKey has not and holds tag 0
C16_Witness ==
  /\ AtRest
  /\ generation8 = 4
  /\ call.op = "save"
  /\ written = {entry(K1)}
  /\ entries[entry(K1)].key16 = KeyHigh16(K1)
  /\ BitAnd(entries[entry(K1)].genBound8, 252) = 4
  /\ entries[entry(LowKey)].key16 = 0

\* C17: after a save that passes the admission test the entry's genBound is
\* the table's generation OR the bound: the bound reads back as b, the
\* generation bits are the table's generation, and hashfull() counts the
\* entry if it is among the first 1000.
C17_GenerationStamp ==
  [][(SaveStep /\ Admitted) =>
       /\ Target1.genBound8 = BitOr(generation8, call'.b)
       /\ bound(Target1) = call'.b
       /\ BitAnd(Target1.genBound8, 252) = generation8
       /\ entry(call'.k) < HashfullSample =>
            /\ entry(call'.k) \in SampleSlots'
            /\ SameGeneration(Target1)
            /\ Counted' >= 1
            /\ hashfull' = {Counted'}]_vars

\* a save into a slot among the first 1000 has been stamped with generation
\* 4 and the bound EXACT, and hashfull() returns 1
C17_Witness ==
  /\ AtRest
  /\ call.op = "save"
  /\ call.k = LowKey
  /\ generation8 = 4
  /\ Addressed.genBound8 = 4 + BOUND_EXACT
  /\ hashfull = {1}

----------------------------------------------------------------------------
\* Properties of the order of resize and of concurrent calls.

\* the allocation and its size, which resize changes
Allocation == << entryCount, mem, table, live, clean, DOMAIN entries >>

\* every entry of the block has been zeroed or written since malloc
Initialised ==
  /\ live
  /\ AllZero \/ \A i \in DOMAIN entries : entries[i] # Uninit
  /\ clean = IF entryCount > 0 THEN {<<0, entryCount>>} ELSE {}

\* resize() is past its wait, or clear() is running
PastWait ==
  pc \in {"resize_count", "resize_free", "resize_malloc", "resize_align",
          "clear_spawn", "clear_join", "clear_return"}

\* C18: resize waits for the search to finish before it changes entryCount,
\* frees the block, allocates or zeroes: while the search runs resize stays
\* at the wait and leaves the allocation as it is, nothing of resize or clear
\* runs during a search, and every probe, save or hashfull is made on a block
\* that is allocated and wholly zeroed.
C18_WaitFirst ==
  /\ [](searching => ~PastWait)
  /\ [][(pc = "resize_wait" /\ searching /\ searching') =>
          (~PastWait' /\ Allocation' = Allocation)]_vars
  /\ [][(Allocation' # Allocation) => (~searching /\ pc # "resize_wait")]_vars
  /\ [][(SaveStep \/ ProbeStep \/ Hashfull) => Initialised]_vars

\* resize(0) is waiting for a search that has just saved into the table of
\* 131072 entries
C18_Witness ==
  /\ pc = "resize_wait"
  /\ mbSize = 0
  /\ searching
  /\ call.op = "save"
  /\ entryCount = 131072
  /\ Initialised
  /\ Addressed.key16 = KeyHigh16(call.k)

\* the indices a step of hashfull() reads
HashfullReads == 0 .. HashfullSample - 1

\* C20, as claimed: every index read by hashfull() and every index written by
\* a worker of clear() lies in [0, entryCount), for every table size that
\* resize produces and every worker count.
C20_AsClaimed ==
  [][/\ (Hashfull \/ HashfullFault) =>
          \A i \in HashfullReads : i < entryCount
     /\ \A idx \in 0 .. MaxThreads - 1 :
          ClearWorker(idx) =>
            /\ SliceStart(idx) >= 0
            /\ SliceStart(idx) + SliceLen(idx) <= entryCount]_vars

\* the threads whose save, begun or finished, is on slot i
WritersOf(i) ==
  {t \in DOMAIN writers : writers[t].at # "idle" /\ entry(writers[t].k) = i}

\* every field of entry i is zero, as clear() left it, or comes from one of
\* the saves on slot i (from one save per field, not from one for all)
FromSaves(i) ==
  LET e == entries[i]
      W == WritersOf(i)
  IN  /\ e.key16 \in {0} \cup {KeyHigh16(writers[t].k) : t \in W}
      /\ e.move16 \in {0} \cup {writers[t].m : t \in W}
      /\ e.value16 \in {0} \cup {writers[t].v : t \in W}
      /\ e.depth8 \in {0} \cup {writers[t].d : t \in W}
      /\ bound(e) \in {0} \cup {writers[t].b : t \in W}
      /\ BitAnd(e.genBound8, 252) \in {0, generation8}

\* C19: the statements of two saves on one slot interleave freely (RaceSpec);
\* every step of a save or a probe changes the addressed entry only, and each
\* field of an entry is zero or the field of one of the saves on its slot.
\* That fields of different saves can meet in one entry, found by a probe,
\* is the state C19_Witness.
C19_Confined ==
  /\ [](\A i \in DOMAIN entries : FromSaves(i))
  /\ [][\A i \in DOMAIN entries :
          entries'[i] # entries[i] =>
            \/ \E t \in WriterIds :
                 writers'[t] # writers[t] /\ i = entry(writers[t].k)
            \/ ProbeStep /\ i = entry(call'.k)]_vars

\* both saves have returned; the entry holds the tag and the depth of one
\* and the value of the other, and a probe of the first fingerprint has
\* returned found = true, as a probe made now does
C19_Witness ==
  \E t, u \in DOMAIN writers :
    /\ writers[t].at = "done" /\ writers[u].at = "done"
    /\ KeyHigh16(writers[t].k) # KeyHigh16(writers[u].k)
    /\ entry(writers[t].k) = entry(writers[u].k)
    /\ writers[t].v # writers[u].v
    /\ writers[t].d # writers[u].d
    /\ entries[entry(writers[t].k)].key16 = KeyHigh16(writers[t].k)
    /\ entries[entry(writers[t].k)].depth8 = writers[t].d
    /\ entries[entry(writers[t].k)].value16 = writers[u].v
    /\ probeFound(entries[entry(writers[t].k)], writers[t].k)
    /\ call.op = "probe" /\ call.k = writers[t].k /\ ret.found

====
